---- MODULE Spec2Model ----
(***************************************************************************)
(* Model of spicelib/log/ltsteps.py: the LTSpice log reader                *)
(* (LTSpiceLogReader.__init__), the export reformatter                     *)
(* (reformat_LTSpice_export) and the export reader (LTSpiceExport).        *)
(*                                                                         *)
(* A file is a sequence of lines.  A line is a record whose kind names the *)
(* shape of its text and whose fields hold the parts of the text the code  *)
(* looks at; Text renders the line.  The operators StartsWith, TabSplit,   *)
(* WhitespaceSplit, regx_match ... give, for the lines of this vocabulary, *)
(* what the Python expression of the same name gives on the text.          *)
(***************************************************************************)
EXTENDS Integers, Sequences, FiniteSets, TLC

VARIABLES
    file,           \* the input file: a sequence of lines
    pos,            \* index of the line held in the local `line` (Len(file)+1: readline gave '')
    pc,             \* position of the running operation
    exc,            \* the exception that ended the operation ("" when none)
    handles,        \* the file handles that are open
    read_measures,  \* LTSpiceLogReader's read_measures argument
    step_count,     \* LogfileData.step_count: the Run Counter
    measure_count,  \* LogfileData.measure_count
    stepset,        \* LogfileData.stepset: ordered mapping name -> values
    dataset,        \* LogfileData.dataset / LTSpiceExport.dataset: ordered mapping column -> values
    fourier,        \* LTSpiceLogReader.fourier: ordered mapping signal -> FourierData records
    blk,            \* locals of the Fourier block being read
    dataname,       \* local dataname of the measurement pass
    headers,        \* local headers (measurement pass), LTSpiceExport.headers, or the header line
    measurements,   \* local measurements of the measurement pass
    go_header,      \* local go_header of the two export operations
    curr,           \* reformat: [run_no, param_values]; LTSpiceExport: curr_dic
    out             \* reformat: the lines written to fout

vars == <<file, pos, pc, exc, handles, read_measures, step_count, measure_count,
          stepset, dataset, fourier, blk, dataname, headers, measurements,
          go_header, curr, out>>

logvars == <<read_measures, step_count, measure_count, stepset, fourier, blk,
             dataname, measurements>>

expvars == <<go_header, curr, out>>

----------------------------------------------------------------------------
(* Bounds *)

\* files of the log reader are made of at most MaxSegs segments
MaxSegs == 3

\* files of the export operations have at most MaxRows lines after the header
MaxRows == 4

----------------------------------------------------------------------------
(* Python values: a value is [ty, s], s being its text *)

PyNone == [ty |-> "None", s |-> ""]

PyStr(s) == [ty |-> "str", s |-> s]

PyInt(s) == [ty |-> "int", s |-> s]

PyFloat(s) == [ty |-> "float", s |-> s]

\* bool(x) of a str-or-None local
Truthy(v) == v.ty # "None" /\ v.s # ""

\* the texts of this vocabulary that int() accepts
IntTexts == {"0", "1", "2", "3", "90"}

\* the texts of this vocabulary that float() accepts and int() does not
FloatTexts == {"0.5", "1.5", "1e3", "0.001", "-0.0186257", "1.99", "1.41"}

IsIntText(t) == t \in IntTexts

IsFloatText(t) == t \in IntTexts \cup FloatTexts

\* try_convert_value on one token: int, else float, else the text
try_convert_value(t) ==
    IF IsIntText(t) THEN PyInt(t)
    ELSE IF t \in FloatTexts THEN PyFloat(t)
    ELSE PyStr(t)

\* try_convert_value on a list: element by element
try_convert_list(ts) == [i \in 1..Len(ts) |-> try_convert_value(ts[i])]

\* str.rstrip of the degree sign (written deg in this vocabulary)
RStripDeg(t) ==
    CASE t = "90deg" -> "90"
      [] t = "0deg" -> "0"
      [] t = "0.5deg" -> "0.5"
      [] OTHER -> t

----------------------------------------------------------------------------
(* Ordered mappings (Python dict): a sequence of [k, v] in insertion order *)

Keys(d) == [i \in 1..Len(d) |-> d[i].k]

Has(d, k) == \E i \in 1..Len(d) : d[i].k = k

Get(d, k) == d[CHOOSE i \in 1..Len(d) : d[i].k = k].v

\* d[k] = v
Put(d, k, v) ==
    IF Has(d, k)
    THEN [i \in 1..Len(d) |-> IF d[i].k = k THEN [k |-> k, v |-> v] ELSE d[i]]
    ELSE Append(d, [k |-> k, v |-> v])

----------------------------------------------------------------------------
(* Lines *)

LnNPeriod(v) == [kind |-> "nperiod", val |-> v]

LnSignal(s) == [kind |-> "signal", nm |-> s]

LnDC(v) == [kind |-> "dc", val |-> v]

LnBlank == [kind |-> "blank"]

LnText(s) == [kind |-> "text", nm |-> s]

LnHarm(toks) == [kind |-> "harm", toks |-> toks]

LnTHD(v) == [kind |-> "thd", val |-> v]

LnPHD(v) == [kind |-> "phd", val |-> v]

\* asg: the space separated tokens after ".step", each the sequence of its "=" separated pieces
LnStep(asg) == [kind |-> "step", asg |-> asg]

LnMeas(sp, s) == [kind |-> "meas", sp |-> sp, nm |-> s]

\* suf: "" (plain), "fromto" (a, b) or "at" (a)
LnStepless(n, v, suf, a, b) ==
    [kind |-> "stepless", nm |-> n, val |-> v, suf |-> suf, a |-> a, b |-> b]

LnRow(toks) == [kind |-> "row", toks |-> toks]

\* what readline() returns at end of file
EOF == [kind |-> "eof"]

RECURSIVE Join(_, _)
Join(ts, sep) ==
    IF ts = <<>> THEN ""
    ELSE IF Len(ts) = 1 THEN ts[1]
    ELSE ts[1] \o sep \o Join(Tail(ts), sep)

\* the text of a line, without its line end
Text(l) ==
    CASE l.kind = "nperiod" -> "N-Period=" \o l.val
      [] l.kind = "signal" -> "Fourier components of " \o l.nm
      [] l.kind = "dc" -> "DC component:" \o l.val
      [] l.kind = "text" -> l.nm
      [] l.kind = "harm" -> Join(l.toks, " ")
      [] l.kind = "thd" -> "Total Harmonic Distortion: " \o l.val \o "%"
      [] l.kind = "phd" -> "Partial Harmonic Distortion: " \o l.val \o "%"
      [] l.kind = "step" ->
           Join(<<".step">> \o [i \in 1..Len(l.asg) |-> Join(l.asg[i], "=")], " ")
      [] l.kind = "meas" -> "Measurement:" \o (IF l.sp THEN " " ELSE "") \o l.nm
      [] l.kind = "stepless" ->
           l.nm \o ": x=" \o l.val \o
           (IF l.suf = "fromto" THEN " FROM " \o l.a \o " TO " \o l.b
            ELSE IF l.suf = "at" THEN " at " \o l.a ELSE "")
      [] l.kind = "row" -> Join(l.toks, "\t")
      [] OTHER -> ""

\* line.startswith(prefix), for the prefixes the code tests
StartsWith(l, prefix) ==
    CASE prefix = "N-Period" -> l.kind = "nperiod"
      [] prefix = ".step" -> l.kind = "step"
      [] prefix = "Measurement:" -> l.kind = "meas"
      [] prefix = "Measurement: " -> l.kind = "meas" /\ l.sp
      [] prefix = "Total Harmonic" -> l.kind = "thd"
      [] prefix = "Partial Harmonic" -> l.kind = "phd"
      [] OTHER -> FALSE

\* line.strip('\r\n') == ""
IsEmpty(l) == l.kind \in {"blank", "eof"}

\* line.split("\t")
TabSplit(l) == IF l.kind = "row" THEN l.toks ELSE <<Text(l)>>

\* line.split()
WhitespaceSplit(l) ==
    CASE l.kind = "harm" -> l.toks
      [] l.kind = "row" -> l.toks
      [] l.kind \in {"blank", "eof"} -> <<>>
      [] l.kind = "step" -> <<".step">> \o [i \in 1..Len(l.asg) |-> Join(l.asg[i], "=")]
      [] OTHER -> <<Text(l)>>   \* the first word is what is looked at: it is no number

\* line.split("=")[-1] of an N-Period line
AfterLastEq(l) == IF l.kind = "nperiod" THEN l.val ELSE Text(l)

\* line.split(" of ")[-1]
AfterLastOf(l) == IF l.kind = "signal" THEN l.nm ELSE Text(l)

\* line.split(':')[-1]
AfterLastColon(l) ==
    CASE l.kind = "dc" -> l.val
      [] l.kind = "meas" -> (IF l.sp THEN " " ELSE "") \o l.nm
      [] l.kind = "thd" -> " " \o l.val \o "%"
      [] l.kind = "phd" -> " " \o l.val \o "%"
      [] l.kind = "stepless" -> Text([l EXCEPT !.nm = ""])
      [] OTHER -> Text(l)

\* line[13:] of a line that starts with "Measurement: "
AfterMeasurement(l) == l.nm

\* re.search(r"\d+.\d+", line): the text found, or None
SearchDecimal(l) ==
    IF l.kind \in {"thd", "phd"} /\ IsFloatText(l.val) /\ ~IsIntText(l.val)
    THEN PyStr(l.val) ELSE PyNone

\* regx.match(line) of the stepless measurement pattern: the groups, or None
regx_match(l) ==
    IF l.kind = "stepless"
    THEN [ty |-> "match", name |-> l.nm, value |-> l.val,
          from |-> IF l.suf = "fromto" THEN PyStr(l.a) ELSE PyNone,
          to |-> IF l.suf = "fromto" THEN PyStr(l.b) ELSE PyNone,
          at |-> IF l.suf = "at" THEN PyStr(l.a) ELSE PyNone]
    ELSE [ty |-> "None"]

----------------------------------------------------------------------------
(* LTSpiceLogReader.__init__ *)

LineAt(i) == IF i \in 1..Len(file) THEN file[i] ELSE EOF

\* the local `line`
Cur == LineAt(pos)

\* a readline() that does not move on
AdvNowhere(p, n) == p

\* the position after n more readline() calls
Adv(p, n) == IF p + n > Len(file) THEN Len(file) + 1 ELSE p + n

NoBlk == [n_periods |-> PyNone, signal |-> "", dc_component |-> PyNone,
          phd |-> PyNone, thd |-> PyNone, harmonics |-> <<>>, start |-> 0]

\* whether the i-th field of a harmonic line converts: int, three floats, two floats
\* after the degree sign is stripped
FieldConverts(i, t) ==
    IF i = 1 THEN IsIntText(t)
    ELSE IF i <= 4 THEN IsFloatText(t)
    ELSE IsFloatText(RStripDeg(t))

\* the exception HarmonicData.from_line raises on these tokens ("" when none): the
\* fields are taken in turn, a missing one is an IndexError, a bad one a ValueError
FromLineExc(tokens) ==
    LET bad(i) == Len(tokens) < i \/ ~FieldConverts(i, tokens[i])
    IN  IF \A i \in 1..6 : ~bad(i) THEN ""
        ELSE LET f == CHOOSE i \in 1..6 : bad(i) /\ \A j \in 1..(i - 1) : ~bad(j)
             IN  IF Len(tokens) < f THEN "IndexError" ELSE "ValueError"

\* HarmonicData.from_line: the record built from the tokens of a line
from_line(tokens) ==
    [harmonic_number |-> PyInt(tokens[1]),
     frequency |-> PyFloat(tokens[2]),
     fourier_component |-> PyFloat(tokens[3]),
     normalized_component |-> PyFloat(tokens[4]),
     phase |-> PyFloat(RStripDeg(tokens[5])),
     normalized_phase |-> PyFloat(RStripDeg(tokens[6]))]

\* a record tagged with the run after its own
FourierDataOfNextRun(b, step) ==
    [signal |-> b.signal, n_periods |-> b.n_periods, dc_component |-> b.dc_component,
     phd |-> b.phd, thd |-> b.thd, harmonics |-> b.harmonics, step |-> step + 1]

\* FourierData(signal, n_periods, dc_component, phd, thd, harmonics, step)
FourierData(b, step) ==
    [signal |-> b.signal, n_periods |-> b.n_periods, dc_component |-> b.dc_component,
     phd |-> b.phd, thd |-> b.thd, harmonics |-> b.harmonics, step |-> step]

\* a reset that leaves the distortion figures of the block before
NewTableKeepingFigures(b) == [b EXCEPT !.harmonics = <<>>]

\* the reset of the distortion figures and of the harmonics before a table is read
NewTable(b) == [b EXCEPT !.phd = PyNone, !.thd = PyNone, !.harmonics = <<>>]

\* an N-Period line: the block's head is read up to the two table header lines
FourierStart ==
    /\ pc = "preamble"
    /\ pos <= Len(file)
    /\ StartsWith(Cur, "N-Period")
    /\ LET n == AfterLastEq(Cur)
           sig == AfterLastOf(LineAt(pos + 1))
           dc == AfterLastColon(LineAt(pos + 2))
       IN  IF n # "all" /\ ~IsFloatText(n)
           THEN /\ pc' = "error" /\ exc' = "ValueError" /\ handles' = {}
                /\ UNCHANGED <<pos, blk>>
           ELSE IF ~IsFloatText(dc)
           THEN /\ pc' = "error" /\ exc' = "ValueError" /\ handles' = {}
                /\ pos' = Adv(pos, 2)
                /\ UNCHANGED blk
           ELSE /\ pc' = "fourier"
                /\ pos' = Adv(pos, 5)
                /\ blk' = NewTable([blk EXCEPT
                              !.n_periods = IF n = "all" THEN PyInt("-1") ELSE PyFloat(n),
                              !.signal = sig,
                              !.dc_component = PyFloat(dc),
                              !.start = pos])
                /\ UNCHANGED <<exc, handles>>
    /\ UNCHANGED <<file, read_measures, step_count, measure_count, stepset, dataset,
                   fourier, dataname, headers, measurements, expvars>>

\* a record put in front of the list
AddHarmonicInFront(hs, h) == <<h>> \o hs

\* harmonics.append(...)
AddHarmonic(hs, h) == Append(hs, h)

\* the block after one more line of the harmonics table, or the exception raised
TableLine(b, l) ==
    IF StartsWith(l, "Total Harmonic")
    THEN IF SearchDecimal(l) = PyNone
         THEN [exc |-> "AttributeError", blk |-> b]
         ELSE [exc |-> "", blk |-> [b EXCEPT !.thd = PyFloat(SearchDecimal(l).s)]]
    ELSE IF StartsWith(l, "Partial Harmonic")
    THEN IF SearchDecimal(l) = PyNone
         THEN [exc |-> "AttributeError", blk |-> b]
         ELSE [exc |-> "", blk |-> [b EXCEPT !.phd = PyFloat(SearchDecimal(l).s)]]
    ELSE IF FromLineExc(WhitespaceSplit(l)) # ""
         THEN [exc |-> FromLineExc(WhitespaceSplit(l)), blk |-> b]
         ELSE [exc |-> "",
               blk |-> [b EXCEPT !.harmonics = AddHarmonic(@, from_line(WhitespaceSplit(l)))]]

\* one turn of the harmonics loop on a line that is not empty
HarmonicLine ==
    /\ pc = "fourier"
    /\ ~IsEmpty(LineAt(pos + 1))
    /\ LET r == TableLine(blk, LineAt(pos + 1))
       IN  /\ pos' = Adv(pos, 1)
           /\ blk' = r.blk
           /\ exc' = r.exc
           /\ pc' = IF r.exc = "" THEN "fourier" ELSE "error"
           /\ handles' = IF r.exc = "" THEN handles ELSE {}
    /\ UNCHANGED <<file, read_measures, step_count, measure_count, stepset, dataset,
                   fourier, dataname, headers, measurements, expvars>>

\* self.fourier with the record added to its signal's list
AddFourier(f, rec) ==
    IF Has(f, rec.signal)
    THEN Put(f, rec.signal, Append(Get(f, rec.signal), rec))
    ELSE Put(f, rec.signal, <<rec>>)

\* an end of the table that hands the lines of the block to the scan again
FourierEndRescan ==
    /\ pc = "fourier"
    /\ IsEmpty(LineAt(pos + 1))
    /\ fourier' = AddFourier(fourier, FourierData(blk, step_count - 1))
    /\ pos' = blk.start + 1
    /\ pc' = "preamble"
    /\ UNCHANGED <<file, exc, handles, read_measures, step_count, measure_count, stepset,
                   dataset, blk, dataname, headers, measurements, expvars>>

\* the empty line that ends the table: the record is stored, the scan goes on
FourierEnd ==
    /\ pc = "fourier"
    /\ IsEmpty(LineAt(pos + 1))
    /\ fourier' = AddFourier(fourier, FourierData(blk, step_count - 1))
    /\ pos' = Adv(pos, 2)
    /\ pc' = "preamble"
    /\ UNCHANGED <<file, exc, handles, read_measures, step_count, measure_count, stepset,
                   dataset, blk, dataname, headers, measurements, expvars>>

\* a value that replaces the sequence of its parameter
AddStepValueReplacing(ss, lhs, rhs) == Put(ss, lhs, <<rhs>>)

\* ll = self.stepset.get(lhs): the value joins the sequence, or starts it
AddStepValue(ss, lhs, rhs) ==
    IF Has(ss, lhs) /\ Get(ss, lhs) # <<>>
    THEN Put(ss, lhs, Append(Get(ss, lhs), rhs))
    ELSE Put(ss, lhs, <<rhs>>)

\* the tokens of a .step line taken in turn; ok is FALSE when one does not unpack
RECURSIVE StepTokens(_, _)
StepTokens(asg, ss) ==
    IF asg = <<>> THEN [ok |-> TRUE, ss |-> ss]
    ELSE LET tok == Head(asg) IN
         IF Len(tok) # 2 THEN [ok |-> FALSE, ss |-> ss]
         ELSE StepTokens(Tail(asg), AddStepValue(ss, tok[1], try_convert_value(tok[2])))

\* a .step line
StepLine ==
    /\ pc = "preamble"
    /\ pos <= Len(file)
    /\ ~StartsWith(Cur, "N-Period")
    /\ StartsWith(Cur, ".step")
    /\ step_count' = step_count + 1
    /\ LET r == StepTokens(Cur.asg, stepset)
       IN  /\ stepset' = r.ss
           /\ IF r.ok
              THEN /\ pos' = Adv(pos, 1)
                   /\ UNCHANGED <<pc, exc, handles>>
              ELSE /\ pc' = "error" /\ exc' = "ValueError" /\ handles' = {}
                   /\ UNCHANGED pos
    /\ UNCHANGED <<file, read_measures, measure_count, dataset, fourier, blk,
                   dataname, headers, measurements, expvars>>

\* a marker that starts the measurement pass whatever the caller asked
ReadsMeasuresAlways(rm) == TRUE

\* whether the marker starts the measurement pass
ReadsMeasures(rm) == rm

\* a line that starts with "Measurement:" ends the preamble
MeasurementMarker ==
    /\ pc = "preamble"
    /\ pos <= Len(file)
    /\ ~StartsWith(Cur, "N-Period")
    /\ ~StartsWith(Cur, ".step")
    /\ StartsWith(Cur, "Measurement:")
    /\ IF ~ReadsMeasures(read_measures)
       THEN /\ pc' = "done" /\ handles' = {}
            /\ UNCHANGED <<dataname, headers, measurements>>
       ELSE /\ pc' = "measure"
            /\ dataname' = PyNone
            /\ headers' = <<>>
            /\ measurements' = <<>>
            /\ UNCHANGED handles
    /\ UNCHANGED <<file, pos, exc, read_measures, step_count, measure_count, stepset,
                   dataset, fourier, blk, expvars>>

\* the headers and the measurements of a matched stepless measurement line
SteplessHeaders(m) ==
    IF Truthy(m.from) THEN <<m.name, m.name \o "_FROM", m.name \o "_TO">>
    ELSE IF Truthy(m.at) THEN <<m.name, m.name \o "_at">>
    ELSE <<m.name>>

SteplessValues(m) ==
    IF Truthy(m.from) THEN <<m.value, m.from.s, m.to.s>>
    ELSE IF Truthy(m.at) THEN <<m.value, m.at.s>>
    ELSE <<m.value>>

RECURSIVE StoreStepless(_, _, _, _)
StoreStepless(ds, hs, ms, k) ==
    IF k > Len(hs) THEN ds
    ELSE StoreStepless(Put(ds, hs[k], <<try_convert_value(ms[k])>>), hs, ms, k + 1)

\* a guard that lets every line through
NoStepsUnchecked(n) == TRUE

\* the guard of the stepless path
NoSteps(n) == n = 0

\* a line of the preamble that is none of the three markers, matched as a stepless measurement
SteplessMeasurement ==
    /\ pc = "preamble"
    /\ pos <= Len(file)
    /\ ~StartsWith(Cur, "N-Period")
    /\ ~StartsWith(Cur, ".step")
    /\ ~StartsWith(Cur, "Measurement:")
    /\ NoSteps(step_count)
    /\ regx_match(Cur).ty # "None"
    /\ LET m == regx_match(Cur)
       IN  dataset' = StoreStepless(dataset, SteplessHeaders(m), SteplessValues(m), 1)
    /\ measure_count' = measure_count + 1
    /\ pos' = Adv(pos, 1)
    /\ UNCHANGED <<file, pc, exc, handles, read_measures, step_count, stepset, fourier,
                   blk, dataname, headers, measurements, expvars>>

\* any other line of the preamble is passed over
SkipLine ==
    /\ pc = "preamble"
    /\ pos <= Len(file)
    /\ ~StartsWith(Cur, "N-Period")
    /\ ~StartsWith(Cur, ".step")
    /\ ~StartsWith(Cur, "Measurement:")
    /\ ~(NoSteps(step_count) /\ regx_match(Cur).ty # "None")
    /\ pos' = Adv(pos, 1)
    /\ UNCHANGED <<file, pc, exc, handles, read_measures, step_count, measure_count,
                   stepset, dataset, fourier, blk, dataname, headers, measurements, expvars>>

\* a store that takes the first value of each measure for every title
RECURSIVE StoreColumnsFirstValue(_, _, _, _)
StoreColumnsFirstValue(ds, hs, ms, k) ==
    IF k > Len(hs) THEN [ok |-> TRUE, ds |-> ds]
    ELSE IF \E i \in 1..Len(ms) : Len(ms[i]) < k THEN [ok |-> FALSE, ds |-> ds]
    ELSE StoreColumnsFirstValue(Put(ds, hs[k], [i \in 1..Len(ms) |-> ms[i][1]]), hs, ms, k + 1)

\* dataset[title] = [measure[k] for measure in measurements], for each header in turn;
\* ok is FALSE when a measure has no k-th value
RECURSIVE StoreColumns(_, _, _, _)
StoreColumns(ds, hs, ms, k) ==
    IF k > Len(hs) THEN [ok |-> TRUE, ds |-> ds]
    ELSE IF \E i \in 1..Len(ms) : Len(ms[i]) < k THEN [ok |-> FALSE, ds |-> ds]
    ELSE StoreColumns(Put(ds, hs[k], [i \in 1..Len(ms) |-> ms[i][k]]), hs, ms, k + 1)

\* end of file in the preamble: both loops are over, nothing is pending
PreambleEOF ==
    /\ pc = "preamble"
    /\ pos > Len(file)
    /\ pc' = "done"
    /\ handles' = {}
    /\ dataname' = PyNone
    /\ headers' = <<>>
    /\ measurements' = <<>>
    /\ UNCHANGED <<file, pos, exc, read_measures, step_count, measure_count, stepset,
                   dataset, fourier, blk, expvars>>

\* the key a str-or-None makes in a dict or a list of titles
KeyOf(v) == IF v.ty = "None" THEN "None" ELSE v.s

\* a "Measurement: <name>" line: the pending block is stored, a new one starts
MeasStart ==
    /\ pc = "measure"
    /\ pos <= Len(file)
    /\ StartsWith(Cur, "Measurement: ")
    /\ LET store == Truthy(dataname) /\ Len(measurements) > 0
           r == IF store THEN StoreColumns(dataset, headers, measurements, 1)
                ELSE [ok |-> TRUE, ds |-> dataset]
       IN  /\ measure_count' = IF store THEN measure_count + Len(measurements)
                               ELSE measure_count
           /\ dataset' = r.ds
           /\ IF r.ok
              THEN /\ headers' = IF Truthy(dataname) THEN <<>> ELSE headers
                   /\ measurements' = IF Truthy(dataname) THEN <<>> ELSE measurements
                   /\ dataname' = PyStr(AfterMeasurement(Cur))
                   /\ pos' = Adv(pos, 1)
                   /\ UNCHANGED <<pc, exc, handles>>
              ELSE /\ pc' = "error" /\ exc' = "IndexError" /\ handles' = {}
                   /\ UNCHANGED <<headers, measurements, dataname, pos>>
    /\ UNCHANGED <<file, read_measures, step_count, stepset, fourier, blk, expvars>>

\* the titles of a header row whose FROM, at and TO tokens are taken as they stand
HeaderRowUnprefixed(tokens, name) ==
    [exc |-> "",
     headers |-> <<KeyOf(name)>> \o [i \in 1..(Len(tokens) - 2) |-> tokens[i + 2]]]

\* the titles a header row gives the block; the exception when dataname is None
HeaderRow(tokens, name) ==
    LET ren2 == Len(tokens) >= 3 /\ tokens[3] \in {"FROM", "at"}
        ren3 == Len(tokens) >= 4 /\ tokens[4] = "TO"
        t(i) == IF i = 3 /\ ren2 THEN name.s \o "_" \o tokens[3]
                ELSE IF i = 4 /\ ren3 THEN name.s \o "_TO"
                ELSE tokens[i]
    IN  IF (ren2 \/ ren3) /\ name.ty = "None"
        THEN [exc |-> "TypeError", headers |-> <<>>]
        ELSE [exc |-> "",
              headers |-> <<KeyOf(name)>> \o [i \in 1..(Len(tokens) - 2) |-> t(i + 2)]]

\* a measurement pass that hands a ".step" or "N-Period" line back to the preamble scan
MeasRowRescanning ==
    /\ pc = "measure"
    /\ pos <= Len(file)
    /\ ~StartsWith(Cur, "Measurement: ")
    /\ pc' = IF StartsWith(Cur, ".step") \/ StartsWith(Cur, "N-Period")
             THEN "preamble" ELSE "measure"
    /\ pos' = IF StartsWith(Cur, ".step") \/ StartsWith(Cur, "N-Period")
              THEN pos ELSE Adv(pos, 1)
    /\ UNCHANGED <<file, exc, handles, read_measures, step_count, measure_count, stepset,
                   dataset, fourier, blk, dataname, headers, measurements, expvars>>

\* any other line of the measurement pass: a data row, a header row, or passed over
MeasRow ==
    /\ pc = "measure"
    /\ pos <= Len(file)
    /\ ~StartsWith(Cur, "Measurement: ")
    /\ LET tokens == TabSplit(Cur) IN
       IF Len(tokens) >= 2
       THEN IF IsIntText(tokens[1])
            THEN /\ measurements' = Append(measurements, try_convert_list(Tail(tokens)))
                 /\ measure_count' = measure_count + 1
                 /\ pos' = Adv(pos, 1)
                 /\ UNCHANGED <<headers, pc, exc, handles>>
            ELSE LET h == HeaderRow(tokens, dataname) IN
                 IF h.exc # ""
                 THEN /\ pc' = "error" /\ exc' = h.exc /\ handles' = {}
                      /\ UNCHANGED <<headers, measurements, measure_count, pos>>
                 ELSE /\ headers' = h.headers
                      /\ measurements' = <<>>
                      /\ pos' = Adv(pos, 1)
                      /\ UNCHANGED <<measure_count, pc, exc, handles>>
       ELSE /\ pos' = Adv(pos, 1)
            /\ UNCHANGED <<headers, measurements, measure_count, pc, exc, handles>>
    /\ UNCHANGED <<file, read_measures, step_count, stepset, dataset, fourier, blk,
                   dataname, expvars>>

\* end of file in the measurement pass: the last block is stored
MeasEOF ==
    /\ pc = "measure"
    /\ pos > Len(file)
    /\ LET store == Len(measurements) > 0
           r == IF store THEN StoreColumns(dataset, headers, measurements, 1)
                ELSE [ok |-> TRUE, ds |-> dataset]
       IN  /\ measure_count' = IF store THEN measure_count + Len(measurements)
                               ELSE measure_count
           /\ dataset' = r.ds
           /\ pc' = IF r.ok THEN "done" ELSE "error"
           /\ exc' = IF r.ok THEN "" ELSE "IndexError"
    /\ handles' = {}
    /\ UNCHANGED <<file, pos, read_measures, step_count, stepset, fourier, blk,
                   dataname, headers, measurements, expvars>>

----------------------------------------------------------------------------
(* The log files read *)

HarmRow(n) == LnHarm(<<n, "1e3", "0.5", "1.5", "90deg", "0deg">>)

\* a Fourier block: its head, the harmonics table (rows, then the distortion lines)
\* and the empty line that ends it
SegFourier(sig, n, table) ==
    <<LnNPeriod(n), LnSignal(sig), LnDC("0.5"), LnBlank,
      LnText("Harmonic Frequency Fourier Normalized Phase Normalized"),
      LnText("Number [Hz] Component Component [degree] Phase [deg]")>>
    \o table \o <<LnBlank>>

\* a block of the measurement table form
SegBlock(name, head, rows) == <<LnMeas(TRUE, name), LnRow(head)>> \o rows

StepSegments ==
    { <<LnStep(<< <<"a", "1">> >>)>>,
      <<LnStep(<< <<"a", "2">>, <<"b", "400m">> >>)>>,
      <<LnStep(<< <<"a", "1">>, <<"a", "3">> >>)>>,
      <<LnStep(<< <<"Ton", "400m">>, <<"(Run:">>, <<"1/2)">> >>)>> }

FourierSegments ==
    { SegFourier("V(x)", "all", <<HarmRow("1"), HarmRow("2"), LnTHD("1.5")>>),
      SegFourier("V(x)", "2", <<HarmRow("1")>>),
      SegFourier("V(y)", "all", <<HarmRow("1"), LnPHD("0.5"), LnTHD("1.5")>>),
      SegFourier("V(y)", "all", <<LnHarm(<<"1", "1e3">>)>>),
      <<LnNPeriod("all")>> }

SteplessSegments ==
    { <<LnStepless("gain", "1.99", "", "", "")>>,
      <<LnStepless("vrms", "1.41", "fromto", "0", "0.001")>>,
      <<LnStepless("vout1m", "-0.0186257", "at", "0.001", "")>> }

BlockSegments ==
    { SegBlock("gain", <<"step", "vout/vin">>, <<LnRow(<<"1", "1.99">>), LnRow(<<"2", "1.5">>)>>),
      SegBlock("gain", <<"step", "vout/vin">>, <<LnRow(<<"1", "0.5">>)>>),
      SegBlock("vrms", <<"step", "RMS(V(OUT))", "FROM", "TO">>,
               <<LnRow(<<"1", "1.41", "0", "0.001">>), LnRow(<<"2", "1.5", "0", "0.001">>)>>),
      SegBlock("vrms", <<"step", "RMS(V(OUT))", "FROM", "TO">>, <<LnRow(<<"1", "1.41">>)>>),
      SegBlock("", <<"step", "v(out)">>, <<LnRow(<<"1", "3">>)>>),
      <<LnMeas(FALSE, "gain")>> }

OtherSegments == { <<LnBlank>> }

Segments ==
    StepSegments \cup FourierSegments \cup SteplessSegments \cup BlockSegments
    \cup OtherSegments

\* the files made of at most n segments
RECURSIVE FilesOf(_)
FilesOf(n) ==
    IF n = 0 THEN {<<>>}
    ELSE LET shorter == FilesOf(n - 1)
         IN  shorter \cup {f \o s : f \in shorter, s \in Segments}

LogFiles == FilesOf(MaxSegs)

\* LogfileData.__init__ with no step set, the file opened and its first line read
InitLog ==
    /\ file \in LogFiles
    /\ read_measures \in BOOLEAN
    /\ pos = 1
    /\ pc = "preamble"
    /\ exc = ""
    /\ handles = {"fin"}
    /\ step_count = 0
    /\ measure_count = 0
    /\ stepset = <<>>
    /\ dataset = <<>>
    /\ fourier = <<>>
    /\ blk = NoBlk
    /\ dataname = PyNone
    /\ headers = <<>>
    /\ measurements = <<>>
    /\ go_header = FALSE
    /\ curr = <<>>
    /\ out = <<>>

NextLog ==
    \/ FourierStart
    \/ HarmonicLine
    \/ FourierEnd
    \/ StepLine
    \/ MeasurementMarker
    \/ SteplessMeasurement
    \/ SkipLine
    \/ PreambleEOF
    \/ MeasStart
    \/ MeasRow
    \/ MeasEOF

Spec == InitLog /\ [][NextLog]_vars

TypeOK ==
    /\ pc \in {"preamble", "fourier", "measure", "reformat", "export", "done", "exported", "error"}
    /\ pos \in 1..(Len(file) + 1)
    /\ (pc = "error") = (exc # "")
    /\ handles \subseteq {"fin", "fout"}
    /\ (handles = {}) => (pc \in {"done", "exported", "error"})

----------------------------------------------------------------------------
(* What the file holds, read off its lines *)

Max(S) == CHOOSE m \in S : \A x \in S : x <= m

Min(S) == CHOOSE m \in S : \A x \in S : m <= x

RECURSIVE Sorted(_)
Sorted(S) == IF S = {} THEN <<>> ELSE <<Min(S)>> \o Sorted(S \ {Min(S)})

\* the lines of the file that start with ".step"
StepLineIdx == {i \in 1..Len(file) : StartsWith(file[i], ".step")}

\* the line that ends the harmonics table of the block whose N-Period line is line i:
\* the first empty line after the block's six head lines (Len(file)+1: the end of file)
BlockEnd(i) ==
    LET E == {j \in (i + 6)..Len(file) : IsEmpty(file[j])}
    IN  IF E = {} THEN Len(file) + 1 ELSE Min(E)

\* the lines the preamble scan takes as lines of their own, from line i on: the lines
\* of a Fourier block after its N-Period line are not among them, nor is any line
\* after the first "Measurement:" line met
RECURSIVE ScanFrom(_)
ScanFrom(i) ==
    IF i > Len(file) THEN {}
    ELSE IF StartsWith(file[i], "N-Period") THEN {i} \cup ScanFrom(BlockEnd(i) + 1)
    ELSE IF StartsWith(file[i], "Measurement:") THEN {i}
    ELSE {i} \cup ScanFrom(i + 1)

ScannedStepIdx == {i \in ScanFrom(1) : StartsWith(file[i], ".step")}

\* the name=value tokens of a .step line
Assignments(l) == SelectSeq(l.asg, LAMBDA tok : Len(tok) = 2)

\* how often parameter p is assigned on a .step line
Occurrences(l, p) == Len(SelectSeq(Assignments(l), LAMBDA tok : tok[1] = p))

ParamsOn(l) == {Assignments(l)[j][1] : j \in 1..Len(Assignments(l))}

\* the value parameter p is given on a line that assigns it once
ValueOn(l, p) == SelectSeq(Assignments(l), LAMBDA tok : tok[1] = p)[1][2]

\* the values of p on the lines of I, in file order, coerced
ValuesInOrder(I, p) ==
    [j \in 1..Cardinality(I) |-> try_convert_value(ValueOn(file[Sorted(I)[j]], p))]

----------------------------------------------------------------------------
(* C1 *)

\* C1 as stated: after a parse the Run Counter is the number of lines of the file
\* that start with ".step", and every parameter that appears on every ".step" line has
\* a Step Set sequence of that length, its values in file order.
C1_AllStepLinesCounted ==
    pc = "done" =>
       /\ step_count = Cardinality(StepLineIdx)
       /\ \A p \in UNION {ParamsOn(file[i]) : i \in StepLineIdx} :
             (\A i \in StepLineIdx : Occurrences(file[i], p) >= 1)
             => /\ Has(stepset, p)
                /\ Len(Get(stepset, p)) = step_count

\* C1 amended: after a parse the Run Counter is the number of ".step" lines the
\* preamble scan reads as lines of their own (those before the first "Measurement:"
\* line it meets and not inside a Fourier block), and every parameter assigned exactly
\* once on each of these lines has a Step Set sequence of that length, holding its
\* coerced values in file order.
C1_ScannedStepLinesCounted ==
    pc = "done" =>
       /\ step_count = Cardinality(ScannedStepIdx)
       /\ \A p \in UNION {ParamsOn(file[i]) : i \in ScannedStepIdx} :
             (\A i \in ScannedStepIdx : Occurrences(file[i], p) = 1)
             => /\ Has(stepset, p)
                /\ Get(stepset, p) = ValuesInOrder(ScannedStepIdx, p)

\* a parse that counted two runs of parameter a, parameter b being on one line only
C1_Witness ==
    /\ pc = "done"
    /\ step_count = 2
    /\ Has(stepset, "a")
    /\ Get(stepset, "a") = <<PyInt("1"), PyInt("2")>>
    /\ Has(stepset, "b")
    /\ Get(stepset, "b") = <<PyStr("400m")>>

----------------------------------------------------------------------------
(* C2 *)

\* C2: the pass over any sequence of lines ends without raising; a line of no
\* recognized shape is skipped.
C2_NeverRaises == pc # "error"

----------------------------------------------------------------------------
(* C3 *)

\* the line at which the measurement pass starts: the "Measurement:" line the scan met
MeasBegin == Min({i \in ScanFrom(1) : StartsWith(file[i], "Measurement:")})

IsDataRow(l) == Len(TabSplit(l)) >= 2 /\ IsIntText(TabSplit(l)[1])

IsHeaderRow(l) ==
    ~StartsWith(l, "Measurement: ") /\ Len(TabSplit(l)) >= 2 /\ ~IsIntText(TabSplit(l)[1])

\* the name of the block that line j, a line of the measurement pass, lies in or ends
NameBefore(j) ==
    LET S == {i \in MeasBegin..(j - 1) : StartsWith(file[i], "Measurement: ")}
    IN  IF S = {} THEN PyNone ELSE PyStr(file[Max(S)].nm)

\* the data rows pending when the measurement pass is at line p: those read since the
\* last header row, or since the last "Measurement: " line that ended a named block
PendingRows(p) ==
    LET R == {j \in MeasBegin..(p - 1) :
                 \/ IsHeaderRow(file[j])
                 \/ StartsWith(file[j], "Measurement: ") /\ Truthy(NameBefore(j))}
        lo == IF R = {} THEN MeasBegin ELSE Max(R)
        I == Sorted({j \in (lo + 1)..(p - 1) : IsDataRow(file[j])})
    IN  [n \in 1..Len(I) |-> try_convert_list(Tail(TabSplit(file[I[n]])))]

\* the measurement pass stores the pending block at this line
StoresHere ==
    /\ pc = "measure"
    /\ \/ pos > Len(file)
       \/ StartsWith(Cur, "Measurement: ") /\ Truthy(dataname)
    /\ PendingRows(pos) # <<>>

\* C3 as stated: after a parse that recognized at least one ".step" line, every
\* column of the Dataset has as many rows as the Run Counter says.
C3_ColumnsHaveRunCountRows ==
    (pc = "done" /\ step_count >= 1) =>
        \A n \in 1..Len(dataset) : Len(dataset[n].v) = step_count

\* C3 amended: a column written when a measurement block is stored has one value per
\* pending data row of that block, the value at position i being the field of the
\* i-th of these rows in file order (the Run Counter and the run number a row names
\* are not looked at); no other step of the measurement pass changes the Dataset.
C3_ColumnsHoldBlockRows ==
    [][ (pc = "measure" /\ pc' # "error") =>
          IF StoresHere
          THEN LET rows == PendingRows(pos) IN
               /\ \A t \in {headers[k] : k \in 1..Len(headers)} :
                     LET k == Max({j \in 1..Len(headers) : headers[j] = t})
                     IN  /\ Has(dataset', t)
                         /\ Get(dataset', t) = [i \in 1..Len(rows) |-> rows[i][k]]
               /\ \A n \in 1..Len(dataset) :
                     dataset[n].k \notin {headers[k] : k \in 1..Len(headers)}
                     => /\ Has(dataset', dataset[n].k)
                        /\ Get(dataset', dataset[n].k) = dataset[n].v
          ELSE dataset' = dataset
      ]_vars

\* one run counted, and a stored block of two data rows with three fields each
C3_Witness ==
    /\ pc = "done"
    /\ step_count = 1
    /\ Has(dataset, "vrms_TO")
    /\ Get(dataset, "vrms") = <<PyFloat("1.41"), PyFloat("1.5")>>
    /\ Get(dataset, "vrms_TO") = <<PyFloat("0.001"), PyFloat("0.001")>>

----------------------------------------------------------------------------
(* C5 *)

\* the preamble scan is at a line it takes as none of the three markers
AtPlainLine ==
    /\ pc = "preamble"
    /\ pos <= Len(file)
    /\ Cur.kind \notin {"nperiod", "step", "meas"}

\* the columns a stepless measurement line names, with the one value of each
SteplessColumns(l) ==
    IF l.suf = "fromto" /\ l.a # ""
    THEN <<[k |-> l.nm, v |-> <<try_convert_value(l.val)>>],
           [k |-> l.nm \o "_FROM", v |-> <<try_convert_value(l.a)>>],
           [k |-> l.nm \o "_TO", v |-> <<try_convert_value(l.b)>>]>>
    ELSE IF l.suf = "at" /\ l.a # ""
    THEN <<[k |-> l.nm, v |-> <<try_convert_value(l.val)>>],
           [k |-> l.nm \o "_at", v |-> <<try_convert_value(l.a)>>]>>
    ELSE <<[k |-> l.nm, v |-> <<try_convert_value(l.val)>>]>>

\* C5: in the preamble scan, while the Run Counter is 0, a line of the stepless
\* measurement shape creates exactly the columns {name}, or {name, name_FROM,
\* name_TO}, or {name, name_at}, each a one-element sequence holding the coerced
\* value, and leaves the other columns alone; once the Run Counter is at least 1, no
\* line of the preamble creates or changes a column.
C5_SteplessColumns ==
    [][ pc = "preamble" =>
          IF AtPlainLine /\ Cur.kind = "stepless" /\ step_count = 0
          THEN LET cols == SteplessColumns(Cur) IN
               /\ \A n \in 1..Len(cols) :
                     Has(dataset', cols[n].k) /\ Get(dataset', cols[n].k) = cols[n].v
               /\ \A n \in 1..Len(dataset') :
                     \/ \E m \in 1..Len(cols) : cols[m].k = dataset'[n].k
                     \/ Has(dataset, dataset'[n].k)
                        /\ Get(dataset, dataset'[n].k) = dataset'[n].v
               /\ \A n \in 1..Len(dataset) : Has(dataset', dataset[n].k)
          ELSE dataset' = dataset
      ]_vars

\* a point measurement stored before the first run, and a later stepless line that
\* stored nothing
C5_Witness ==
    /\ pc = "done"
    /\ step_count = 1
    /\ Len(file) = 3
    /\ file[3].kind = "stepless"
    /\ ~Has(dataset, file[3].nm)
    /\ Has(dataset, "vout1m") /\ Get(dataset, "vout1m") = <<PyFloat("-0.0186257")>>
    /\ Has(dataset, "vout1m_at") /\ Get(dataset, "vout1m_at") = <<PyFloat("0.001")>>
    /\ Len(dataset) = 2

----------------------------------------------------------------------------
(* C6, C7 *)

\* the lines of the harmonics table of the block being read, when the scan is about
\* to read its closing empty line: those after the block's six head lines
TableIdx == (blk.start + 6)..pos

IsDistortionLine(l) == StartsWith(l, "Total Harmonic") \/ StartsWith(l, "Partial Harmonic")

\* the record the step that closes the block adds to the Fourier map
AddedRecord == LET L == Get(fourier', blk.signal) IN L[Len(L)]

ClosesBlock == pc = "fourier" /\ pc' = "preamble"

\* C6: the harmonics of the record of a Fourier block are the harmonic lines between
\* the two table header lines and the closing empty line, one record per line, in file
\* order; the "Total Harmonic" and "Partial Harmonic" lines add none.
C6_HarmonicsInFileOrder ==
    [][ ClosesBlock =>
          LET I == Sorted({i \in TableIdx : ~IsDistortionLine(file[i])})
          IN  /\ Has(fourier', blk.signal)
              /\ AddedRecord.harmonics =
                    [n \in 1..Len(I) |-> from_line(WhitespaceSplit(file[I[n]]))]
      ]_vars

\* a stored record of two harmonics, numbered 1 and 2 in that order, from a table that
\* also holds a "Total Harmonic" line
C6_Witness ==
    /\ Has(fourier, "V(x)")
    /\ \E n \in 1..Len(Get(fourier, "V(x)")) :
          LET r == Get(fourier, "V(x)")[n] IN
          /\ Len(r.harmonics) = 2
          /\ r.harmonics[1].harmonic_number = PyInt("1")
          /\ r.harmonics[2].harmonic_number = PyInt("2")
          /\ r.thd # PyNone

\* the figure of the last line of the table that starts with the prefix, None if none
FigureOf(prefix) ==
    LET I == {i \in TableIdx : StartsWith(file[i], prefix)}
    IN  IF I = {} THEN PyNone ELSE PyFloat(file[Max(I)].val)

\* C7: the THD (PHD) of the record of a Fourier block is set iff the block's table
\* holds a "Total Harmonic" ("Partial Harmonic") line, to the figure of that line,
\* and is None otherwise: it is not zero and not the figure of an earlier block.
C7_DistortionSetIffReported ==
    [][ ClosesBlock =>
          /\ Has(fourier', blk.signal)
          /\ AddedRecord.thd = FigureOf("Total Harmonic")
          /\ AddedRecord.phd = FigureOf("Partial Harmonic")
          /\ (AddedRecord.thd = PyNone) = (\A i \in TableIdx : ~StartsWith(file[i], "Total Harmonic"))
          /\ (AddedRecord.phd = PyNone) = (\A i \in TableIdx : ~StartsWith(file[i], "Partial Harmonic"))
      ]_vars

\* a signal with two records: the first reports a THD, the second reports none
C7_Witness ==
    /\ Has(fourier, "V(x)")
    /\ Len(Get(fourier, "V(x)")) = 2
    /\ Get(fourier, "V(x)")[1].thd = PyFloat("1.5")
    /\ Get(fourier, "V(x)")[1].phd = PyNone
    /\ Get(fourier, "V(x)")[2].thd = PyNone
    /\ Get(fourier, "V(x)")[2].phd = PyNone

----------------------------------------------------------------------------
(* C10 *)

----------------------------------------------------------------------------
(* C4: the log of two runs and two "Measurement: gain" blocks *)

\* ".step Ton=<v>", followed by " (Run: <n>/2)" when run is set
GainStep(v, n, run) ==
    LnStep(<< <<"Ton", v>> >> \o (IF run THEN << <<"(Run:">>, <<n \o "/2)">> >> ELSE <<>>))

GainBlock(n, m) == SegBlock("gain", <<"step", "vout/vin">>, <<LnRow(<<n, m>>)>>)

GainLog(v1, v2, m1, m2, run) ==
    <<GainStep(v1, "1", run), GainStep(v2, "2", run)>> \o GainBlock("1", m1) \o GainBlock("2", m2)

GainLogs ==
    {GainLog(v1, v2, m1, m2, run) :
        v1 \in {"400m", "1"}, v2 \in {"800m", "2"}, m1 \in {"1.99", "x"}, m2 \in {"0.5", "1.5"},
        run \in BOOLEAN}

InitGain ==
    /\ file \in GainLogs
    /\ read_measures \in BOOLEAN
    /\ pos = 1
    /\ pc = "preamble"
    /\ exc = ""
    /\ handles = {"fin"}
    /\ step_count = 0
    /\ measure_count = 0
    /\ stepset = <<>>
    /\ dataset = <<>>
    /\ fourier = <<>>
    /\ blk = NoBlk
    /\ dataname = PyNone
    /\ headers = <<>>
    /\ measurements = <<>>
    /\ go_header = FALSE
    /\ curr = <<>>
    /\ out = <<>>

NextGain ==
    \/ StepLine
    \/ MeasurementMarker
    \/ MeasStart
    \/ MeasRow
    \/ MeasEOF

SpecGain == InitGain /\ [][NextGain]_vars

\* the step lines of the file carry the "(Run: n/2)" suffix
HasRunSuffix == Len(file[1].asg) = 3 /\ Len(file[2].asg) = 3

\* C4: parsing two step lines ".step Ton=<v> (Run: n/2)" followed by two
\* "Measurement: gain" blocks of one data row each completes, with a Dataset column
\* "gain" of the two measurement values in file order and a Step Set of the single key
\* "Ton" with the two values in file order.
C4_GainOfTwoRuns ==
    (HasRunSuffix /\ read_measures /\ pc \in {"done", "error"}) =>
        /\ pc = "done"
        /\ Has(dataset, "gain")
        /\ Get(dataset, "gain") = <<try_convert_value(file[5].toks[2]),
                                    try_convert_value(file[8].toks[2])>>
        /\ stepset = <<[k |-> "Ton", v |-> <<try_convert_value(file[1].asg[1][2]),
                                             try_convert_value(file[2].asg[1][2])>>]>>

----------------------------------------------------------------------------
(* Export files: a header line, then "Step Information:" lines and data lines *)

\* "Step Information: <params>  (Run: <run>/<total>)": params are the space separated
\* tokens, each the sequence of its "=" separated pieces; wf says whether the text
\* ends the way the pattern asks (wf FALSE: the closing bracket is missing)
LnStepInfo(params, run, wf) == [kind |-> "stepinfo", params |-> params, run |-> run, wf |-> wf]

\* a tab separated data line
LnData(toks) == [kind |-> "data", toks |-> toks]

\* line.startswith("Step Information:")
IsStepInformation(l) == l.kind = "stepinfo"

\* regx.match(line): the groups (step, as its tokens, and run_no), or None
StepInfoMatch(l) ==
    IF l.kind = "stepinfo" /\ l.wf /\ Len(l.params) >= 1
    THEN [ty |-> "match", step |-> l.params, run_no |-> l.run]
    ELSE [ty |-> "None", step |-> <<>>, run_no |-> ""]

ExportHeaders == <<"time", "V(out)">>

ExportLines ==
    { LnStepInfo(<< <<"Ton", "400m">> >>, "1", TRUE),
      LnStepInfo(<< <<"Ton", "800m">> >>, "2", TRUE),
      LnStepInfo(<< <<"Ton", "1">>, <<"R", "2">> >>, "3", TRUE),
      LnStepInfo(<< <<"Ton", "3">> >>, "4", FALSE),
      LnStepInfo(<< <<"Ton">> >>, "5", TRUE),
      LnData(<<"0", "1.5">>),
      LnData(<<"1", "0.5">>),
      LnData(<<"2">>),
      LnData(<<"3", "1.5", "x">>) }

\* the sequences of at most n lines
RECURSIVE ExportFilesOf(_)
ExportFilesOf(n) ==
    IF n = 0 THEN {<<>>}
    ELSE LET shorter == ExportFilesOf(n - 1)
         IN  shorter \cup {Append(f, l) : f \in shorter, l \in ExportLines}

ExportFiles == ExportFilesOf(MaxRows)

\* the fields of "\t".join(ts), a text put between two tabs of a written line
JoinedFields(ts) == IF ts = <<>> THEN <<"">> ELSE ts

----------------------------------------------------------------------------
(* reformat_LTSpice_export *)

\* the keys in place of the values
ParamKeysAsValues(step) == [i \in 1..Len(step) |-> step[i][1]]

\* params: param.split('=')[1] of every token
ParamValues(step) == [i \in 1..Len(step) |-> step[i][2]]

\* header_keys: param.split('=')[0] of every token
ParamKeys(step) == [i \in 1..Len(step) |-> step[i][1]]

\* both files opened, the header line read
InitReformat ==
    /\ file \in ExportFiles
    /\ headers = ExportHeaders
    /\ pos = 1
    /\ pc = "reformat"
    /\ exc = ""
    /\ handles = {"fin", "fout"}
    /\ go_header = TRUE
    /\ curr = [run_no |-> "0", param_values |-> <<"">>]
    /\ out = <<>>
    /\ dataset = <<>>
    /\ read_measures = FALSE
    /\ step_count = 0
    /\ measure_count = 0
    /\ stepset = <<>>
    /\ fourier = <<>>
    /\ blk = NoBlk
    /\ dataname = PyNone
    /\ measurements = <<>>

\* a "Step Information:" line: the run and the values are kept, the header is
\* written the first time; a line the pattern does not match is dropped
ReformatMarker ==
    /\ pc = "reformat"
    /\ pos <= Len(file)
    /\ IsStepInformation(file[pos])
    /\ LET m == StepInfoMatch(file[pos]) IN
       IF m.ty = "None"
       THEN /\ pos' = pos + 1
            /\ UNCHANGED <<pc, exc, curr, go_header, out>>
       ELSE IF \E i \in 1..Len(m.step) : Len(m.step[i]) < 2
       THEN /\ pc' = "error" /\ exc' = "IndexError"
            /\ curr' = [curr EXCEPT !.run_no = m.run_no]
            /\ UNCHANGED <<pos, go_header, out>>
       ELSE /\ curr' = [run_no |-> m.run_no,
                        param_values |-> JoinedFields(ParamValues(m.step))]
            /\ out' = IF go_header
                      THEN Append(out, [h |-> TRUE,
                                        f |-> <<"Run">> \o JoinedFields(ParamKeys(m.step))
                                              \o headers])
                      ELSE out
            /\ go_header' = FALSE
            /\ pos' = pos + 1
            /\ UNCHANGED <<pc, exc>>
    /\ UNCHANGED <<file, headers, handles, dataset, logvars>>

\* any other line is written after the run number and the values
ReformatRow ==
    /\ pc = "reformat"
    /\ pos <= Len(file)
    /\ ~IsStepInformation(file[pos])
    /\ out' = Append(out, [h |-> FALSE,
                           f |-> <<curr.run_no>> \o curr.param_values \o file[pos].toks])
    /\ pos' = pos + 1
    /\ UNCHANGED <<file, headers, pc, exc, handles, go_header, curr, dataset, logvars>>

\* the end of the file: both files are closed
ReformatEOF ==
    /\ pc = "reformat"
    /\ pos > Len(file)
    /\ pc' = "done"
    /\ handles' = {}
    /\ UNCHANGED <<file, headers, pos, exc, go_header, curr, out, dataset, logvars>>

NextReformat ==
    \/ ReformatMarker
    \/ ReformatRow
    \/ ReformatEOF

SpecReformat == InitReformat /\ [][NextReformat]_vars

----------------------------------------------------------------------------
(* C8 *)

\* the lines of the file that are no "Step Information:" lines, in file order
RowIdx == Sorted({i \in 1..Len(file) : ~IsStepInformation(file[i])})

\* the rows written, the header left out
RowsWritten == SelectSeq(out, LAMBDA w : ~w.h)

\* the last line before line i among the lines of M (0 when none)
LastBefore(M, i) == IF {j \in M : j < i} = {} THEN 0 ELSE Max({j \in M : j < i})

\* the values a "Step Information:" line shows
ShownValues(l) ==
    JoinedFields([i \in 1..Len(l.params) |-> IF Len(l.params[i]) >= 2 THEN l.params[i][2] ELSE ""])

\* the row of line i, prefixed from line j (no line when j = 0: run 0, no values)
RowFrom(j, i) ==
    IF j = 0 THEN <<"0", "">> \o file[i].toks
    ELSE <<file[j].run>> \o ShownValues(file[j]) \o file[i].toks

MarkerIdx == {i \in 1..Len(file) : IsStepInformation(file[i])}

MatchingMarkerIdx == {i \in MarkerIdx : StepInfoMatch(file[i]).ty # "None"}

\* C8 as stated: one row is written for every line that is no "Step Information:"
\* line, each the line prefixed with the run number and the values of the most recent
\* "Step Information:" line before it.
C8_RowsCarryLastMarker ==
    pc = "done" =>
       /\ Len(RowsWritten) = Len(RowIdx)
       /\ \A n \in 1..Len(RowIdx) :
             LastBefore(MarkerIdx, RowIdx[n]) # 0
             => RowsWritten[n].f = RowFrom(LastBefore(MarkerIdx, RowIdx[n]), RowIdx[n])

\* C8 amended: one row is written for every line that is no "Step Information:"
\* line, each the line prefixed with the run number and the values of the most recent
\* line before it that the "Step Information: ... (Run: n/total)" pattern matches (a
\* "Step Information:" line the pattern does not match is dropped and changes
\* nothing); a row with no such line before it carries run number 0 and an empty
\* value field.
C8_RowsCarryLastMatchingMarker ==
    pc = "done" =>
       /\ Len(RowsWritten) = Len(RowIdx)
       /\ \A n \in 1..Len(RowIdx) :
             RowsWritten[n].f = RowFrom(LastBefore(MatchingMarkerIdx, RowIdx[n]), RowIdx[n])

\* a row after a "Step Information:" line the pattern does not match: it is written
\* with the run number and the value of the matching line before that one
C8_Witness ==
    /\ pc = "done"
    /\ Len(file) = 4
    /\ StepInfoMatch(file[1]).ty = "match"
    /\ IsStepInformation(file[3]) /\ StepInfoMatch(file[3]).ty = "None"
    /\ Len(RowsWritten) = 2
    /\ RowsWritten[1].f = <<"1", "400m", "0", "1.5">>
    /\ RowsWritten[2].f = <<"1", "400m", "1", "0.5">>

----------------------------------------------------------------------------
(* LTSpiceExport *)

\* curr_dic after the tokens ts of a "Step Information:" line: key, value =
\* param.split('=') fails on a token that is not one key and one value
RECURSIVE ExportParams(_, _)
ExportParams(d, ts) ==
    IF ts = <<>> THEN [ok |-> TRUE, d |-> d]
    ELSE IF Len(Head(ts)) # 2 THEN [ok |-> FALSE, d |-> d]
    ELSE ExportParams(Put(d, Head(ts)[1], try_convert_value(Head(ts)[2])), Tail(ts))

\* for key in ks: self.dataset[key] = list()
RECURSIVE EmptyColumns(_, _)
EmptyColumns(d, ks) ==
    IF ks = <<>> THEN d ELSE EmptyColumns(Put(d, Head(ks), <<>>), Tail(ks))

\* for key in self.curr_dic: self.dataset[key].append(self.curr_dic[key])
RECURSIVE AppendCurr(_, _)
AppendCurr(d, cs) ==
    IF cs = <<>> THEN [ok |-> TRUE, d |-> d]
    ELSE IF ~Has(d, Head(cs).k) THEN [ok |-> FALSE, d |-> d]
    ELSE AppendCurr(Put(d, Head(cs).k, Append(Get(d, Head(cs).k), Head(cs).v)), Tail(cs))

\* for i in range(len(values)): self.dataset[self.headers[i]].append(...), from field i on
RECURSIVE AppendFields(_, _, _)
AppendFields(d, values, i) ==
    IF i > Len(values) THEN [exc |-> "", d |-> d]
    ELSE IF i > Len(headers) THEN [exc |-> "IndexError", d |-> d]
    ELSE IF ~Has(d, headers[i]) THEN [exc |-> "KeyError", d |-> d]
    ELSE AppendFields(Put(d, headers[i],
                          Append(Get(d, headers[i]), try_convert_value(values[i]))),
                      values, i + 1)

\* the file opened, the header line read and split
InitExport ==
    /\ file \in ExportFiles
    /\ headers = ExportHeaders
    /\ pos = 1
    /\ pc = "export"
    /\ exc = ""
    /\ handles = {"fin"}
    /\ go_header = TRUE
    /\ curr = <<>>
    /\ out = <<>>
    /\ dataset = <<>>
    /\ read_measures = FALSE
    /\ step_count = 0
    /\ measure_count = 0
    /\ stepset = <<>>
    /\ fourier = <<>>
    /\ blk = NoBlk
    /\ dataname = PyNone
    /\ measurements = <<>>

\* a "Step Information:" line: runno and the parameters go to curr_dic; the first
\* one creates the columns of the headers and of curr_dic
ExportMarker ==
    /\ pc = "export"
    /\ pos <= Len(file)
    /\ IsStepInformation(file[pos])
    /\ LET m == StepInfoMatch(file[pos]) IN
       IF m.ty = "None"
       THEN /\ pos' = pos + 1
            /\ UNCHANGED <<pc, exc, curr, go_header, dataset>>
       ELSE LET r == ExportParams(Put(curr, "runno", PyStr(m.run_no)), m.step) IN
            /\ curr' = r.d
            /\ IF ~r.ok
               THEN /\ pc' = "error" /\ exc' = "ValueError"
                    /\ UNCHANGED <<pos, go_header, dataset>>
               ELSE /\ dataset' = IF go_header
                                  THEN EmptyColumns(EmptyColumns(<<>>, headers), Keys(r.d))
                                  ELSE dataset
                    /\ go_header' = FALSE
                    /\ pos' = pos + 1
                    /\ UNCHANGED <<pc, exc>>
    /\ UNCHANGED <<file, headers, handles, out, logvars>>

\* a data line: the values of curr_dic, then the fields by header position
ExportRow ==
    /\ pc = "export"
    /\ pos <= Len(file)
    /\ ~IsStepInformation(file[pos])
    /\ LET c == AppendCurr(dataset, curr)
           r == AppendFields(c.d, file[pos].toks, 1)
       IN  IF ~c.ok
           THEN /\ pc' = "error" /\ exc' = "KeyError"
                /\ dataset' = c.d
                /\ UNCHANGED pos
           ELSE IF r.exc # ""
           THEN /\ pc' = "error" /\ exc' = r.exc
                /\ dataset' = r.d
                /\ UNCHANGED pos
           ELSE /\ dataset' = r.d
                /\ pos' = pos + 1
                /\ UNCHANGED <<pc, exc>>
    /\ UNCHANGED <<file, headers, handles, go_header, curr, out, logvars>>

\* the end of the file: fin.close()
ExportEOF ==
    /\ pc = "export"
    /\ pos > Len(file)
    /\ pc' = "done"
    /\ handles' = {}
    /\ UNCHANGED <<file, headers, pos, exc, go_header, curr, out, dataset, logvars>>

NextExport ==
    \/ ExportMarker
    \/ ExportRow
    \/ ExportEOF

SpecExport == InitExport /\ [][NextExport]_vars

----------------------------------------------------------------------------
(* C9 *)

\* the fields at header position i of the data lines, coerced, in file order
FieldsAt(i) ==
    [n \in 1..Len(RowIdx) |-> try_convert_value(file[RowIdx[n]].toks[i])]

\* C9: a file without any "Step Information:" line loads, and the dataset then has
\* exactly one column per header, filled by header position with one value per data
\* line, and no runno column.
C9_NoMarkerLoadsHeaderColumns ==
    (MarkerIdx = {} /\ pc \in {"done", "error"})
    => /\ pc = "done"
       /\ Keys(dataset) = headers
       /\ ~Has(dataset, "runno")
       /\ \A i \in 1..Len(headers) : Get(dataset, headers[i]) = FieldsAt(i)

----------------------------------------------------------------------------
(* C11: the three operations that read a file *)

InitFiles == InitLog \/ InitReformat \/ InitExport

NextFiles == NextLog \/ NextReformat \/ NextExport

SpecFiles == InitFiles /\ [][NextFiles]_vars

\* C11: when one of the three operations has ended, by the end of the file, by the
\* early return or by an exception raised on a line, every file handle it opened is
\* closed.
C11_HandlesClosedAtEnd == pc \in {"done", "error"} => handles = {}

----------------------------------------------------------------------------
(* LTSpiceLogReader.export_data: the "_fourier" file *)

\* f"{v}": the text Python writes for a value
Str(v) ==
    CASE v.ty = "None" -> "None"
      [] v.ty = "float" /\ v.s = "1e3" -> "1000.0"
      [] v.ty = "float" /\ IsIntText(v.s) -> v.s \o ".0"
      [] OTHER -> v.s

\* analysis.n_periods < 1
LessThanOne(v) == v = PyInt("-1") \/ v.s \in {"0", "0.5", "0.001", "-0.0186257"}

\* a line written to fout, as its tab separated fields; tbl names the part of the
\* file ("summary", "title", "detail") and h tells a header line from a row
OutLine(tbl, h, f) == [tbl |-> tbl, h |-> h, f |-> f]

\* whether self.stepset[step][step_no] exists for every step
HasStepValues(step_no) == \A i \in 1..Len(stepset) : Len(stepset[i].v) > step_no

\* the values of the first run, whatever the run
step_values_of_first_run(step_no) == [i \in 1..Len(stepset) |-> Str(stepset[i].v[1])]

\* step_values: the text of the step_no-th value of every Step Set sequence
step_values(step_no) == [i \in 1..Len(stepset) |-> Str(stepset[i].v[step_no + 1])]

SummaryHeader ==
    <<"Signal", "N-Periods", "DC Component", "Fundamental", "N-Harmonics", "PHD", "THD">>

DetailHeader ==
    <<"Signal", "N-Periods", "Harmonic", "Frequency", "Fourier", "Normalized", "Phase",
      "Normalized">>

\* the fields of the summary row of an analysis; all tells when "all" is written
SummaryFields(signal, a, all) ==
    <<signal, IF all THEN "all" ELSE Str(a.n_periods), Str(a.dc_component),
      Str(a.harmonics[1].frequency), ToString(Len(a.harmonics)), Str(a.phd), Str(a.thd)>>

\* the fields of the detail row of a harmonic
DetailFields(signal, a, h) ==
    <<signal, Str(a.n_periods), Str(h.harmonic_number), Str(h.frequency),
      Str(h.fourier_component), Str(h.normalized_component), Str(h.phase),
      Str(h.normalized_phase)>>

\* the summary rows of the analyses L[i..] of a signal that belong to run step_no; the
\* step values are written first, then analysis.fundamental fails when there is no
\* harmonic
RECURSIVE SummaryOfRun(_, _, _, _, _)
SummaryOfRun(acc, signal, L, i, step_no) ==
    IF acc.exc # "" \/ i > Len(L) THEN acc
    ELSE IF L[i].step # step_no THEN SummaryOfRun(acc, signal, L, i + 1, step_no)
    ELSE IF L[i].harmonics = <<>>
    THEN [exc |-> "IndexError",
          out |-> Append(acc.out, OutLine("summary", FALSE,
                                          JoinedFields(step_values(step_no)) \o <<"">>))]
    ELSE SummaryOfRun(
           [acc EXCEPT !.out = Append(@, OutLine("summary", FALSE,
                JoinedFields(step_values(step_no))
                \o SummaryFields(signal, L[i], LessThanOne(L[i].n_periods))))],
           signal, L, i + 1, step_no)

\* for step_no in range(self.step_count), from step_no on
RECURSIVE SummaryOfRuns(_, _, _, _)
SummaryOfRuns(acc, signal, L, step_no) ==
    IF acc.exc # "" \/ step_no >= step_count THEN acc
    ELSE IF ~HasStepValues(step_no) THEN [acc EXCEPT !.exc = "IndexError"]
    ELSE SummaryOfRuns(SummaryOfRun(acc, signal, L, 1, step_no), signal, L, step_no + 1)

\* the summary rows of a signal when there is no sweep, from analysis i on
RECURSIVE SummaryPlain(_, _, _, _)
SummaryPlain(acc, signal, L, i) ==
    IF acc.exc # "" \/ i > Len(L) THEN acc
    ELSE IF L[i].harmonics = <<>> THEN [acc EXCEPT !.exc = "IndexError"]
    ELSE SummaryPlain(
           [acc EXCEPT !.out = Append(@, OutLine("summary", FALSE,
                SummaryFields(signal, L[i], L[i].n_periods = PyInt("-1"))))],
           signal, L, i + 1)

\* for signal in self.fourier (first table), from the s-th signal on
RECURSIVE SummaryTable(_, _)
SummaryTable(acc, s) ==
    IF acc.exc # "" \/ s > Len(fourier) THEN acc
    ELSE SummaryTable(
           IF step_count > 0 THEN SummaryOfRuns(acc, fourier[s].k, fourier[s].v, 0)
           ELSE SummaryPlain(acc, fourier[s].k, fourier[s].v, 1),
           s + 1)

\* the detail rows of the harmonics hs[i..] of an analysis, after the fields pre
RECURSIVE DetailOfHarmonics(_, _, _, _, _, _)
DetailOfHarmonics(acc, signal, a, hs, i, pre) ==
    IF i > Len(hs) THEN acc
    ELSE DetailOfHarmonics(
           [acc EXCEPT !.out = Append(@, OutLine("detail", FALSE,
                                                 pre \o DetailFields(signal, a, hs[i])))],
           signal, a, hs, i + 1, pre)

\* for step_no in range(self.step_count) of the second table, from step_no on
RECURSIVE DetailOfRuns(_, _, _, _)
DetailOfRuns(acc, signal, a, step_no) ==
    IF acc.exc # "" \/ step_no >= step_count THEN acc
    ELSE IF a.step # step_no THEN DetailOfRuns(acc, signal, a, step_no + 1)
    ELSE IF ~HasStepValues(step_no) THEN [acc EXCEPT !.exc = "IndexError"]
    ELSE DetailOfRuns(
           DetailOfHarmonics(acc, signal, a, a.harmonics, 1,
                             JoinedFields(step_values(step_no))),
           signal, a, step_no + 1)

\* for analysis in self.fourier[signal] (second table), from analysis i on
RECURSIVE DetailOfSignal(_, _, _, _)
DetailOfSignal(acc, signal, L, i) ==
    IF acc.exc # "" \/ i > Len(L) THEN acc
    ELSE DetailOfSignal(
           IF step_count > 0 THEN DetailOfRuns(acc, signal, L[i], 0)
           ELSE DetailOfHarmonics(acc, signal, L[i], L[i].harmonics, 1, <<>>),
           signal, L, i + 1)

\* for signal in self.fourier (second table), from the s-th signal on
RECURSIVE DetailTable(_, _)
DetailTable(acc, s) ==
    IF acc.exc # "" \/ s > Len(fourier) THEN acc
    ELSE DetailTable(DetailOfSignal(acc, fourier[s].k, fourier[s].v, 1), s + 1)

\* everything the with-block writes, and the exception that ends it ("" when none)
FourierFile ==
    LET head == <<OutLine("summary", TRUE,
                    (IF step_count > 0 THEN JoinedFields(Keys(stepset)) ELSE <<>>)
                    \o SummaryHeader)>>
        t1 == SummaryTable([exc |-> "", out |-> head], 1)
        mid == <<OutLine("title", FALSE, <<"">>), OutLine("title", FALSE, <<"">>),
                 OutLine("title", FALSE, <<"Harmonic Analysis">>),
                 OutLine("detail", TRUE, JoinedFields(Keys(stepset)) \o DetailHeader)>>
    IN  IF t1.exc # "" THEN t1
        ELSE DetailTable([exc |-> "", out |-> t1.out \o mid], 1)

\* export_data on a reader whose pass has ended without an exception. The export of
\* the Dataset by LogfileData.export_data writes another file and is left out; the
\* "_fourier" file is written when the Fourier map is not empty.
export_data ==
    /\ pc = "done"
    /\ IF fourier = <<>>
       THEN /\ pc' = "exported"
            /\ UNCHANGED <<exc, out>>
       ELSE /\ out' = FourierFile.out
            /\ exc' = FourierFile.exc
            /\ pc' = IF FourierFile.exc = "" THEN "exported" ELSE "error"
    /\ UNCHANGED <<file, pos, handles, headers, dataset, go_header, curr, logvars>>

\* the logs exported: steps and Fourier blocks, one block with an empty table
FourierLogSegments ==
    StepSegments \cup FourierSegments \cup {SegFourier("V(x)", "all", <<LnTHD("1.5")>>)}

RECURSIVE FourierLogsOf(_)
FourierLogsOf(n) ==
    IF n = 0 THEN {<<>>}
    ELSE LET shorter == FourierLogsOf(n - 1)
         IN  shorter \cup {f \o s : f \in shorter, s \in FourierLogSegments}

FourierLogs == FourierLogsOf(MaxSegs)

InitFourierExport ==
    /\ file \in FourierLogs
    /\ read_measures = TRUE
    /\ pos = 1
    /\ pc = "preamble"
    /\ exc = ""
    /\ handles = {"fin"}
    /\ step_count = 0
    /\ measure_count = 0
    /\ stepset = <<>>
    /\ dataset = <<>>
    /\ fourier = <<>>
    /\ blk = NoBlk
    /\ dataname = PyNone
    /\ headers = <<>>
    /\ measurements = <<>>
    /\ go_header = FALSE
    /\ curr = <<>>
    /\ out = <<>>

NextFourierExport ==
    \/ FourierStart
    \/ HarmonicLine
    \/ FourierEnd
    \/ StepLine
    \/ PreambleEOF
    \/ export_data

SpecFourierExport == InitFourierExport /\ [][NextFourierExport]_vars

----------------------------------------------------------------------------
(* C12 *)

\* the rows of the first table of the file written
SummaryRows == SelectSeq(out, LAMBDA w : w.tbl = "summary" /\ ~w.h)

\* the number of records of the Fourier map
RECURSIVE RecordCount(_)
RecordCount(s) == IF s > Len(fourier) THEN 0 ELSE Len(fourier[s].v) + RecordCount(s + 1)

\* the records of L whose owning run is at least lo, by ascending owning run, those of
\* one run in the order of L
RECURSIVE ByRun(_, _)
ByRun(L, I) ==
    IF I = {} THEN <<>>
    ELSE LET m == CHOOSE i \in I : \A j \in I :
                     L[i].step < L[j].step \/ (L[i].step = L[j].step /\ i <= j)
         IN  <<L[m]>> \o ByRun(L, I \ {m})

RecordsByRun(L, lo) == ByRun(L, {i \in 1..Len(L) : L[i].step >= lo})

\* the row of a record: the values of its owning run in a sweep, then its figures
RowOf(signal, a) ==
    IF step_count > 0
    THEN JoinedFields([i \in 1..Len(stepset) |-> Str(stepset[i].v[a.step + 1])])
         \o SummaryFields(signal, a, LessThanOne(a.n_periods))
    ELSE SummaryFields(signal, a, a.n_periods = PyInt("-1"))

\* the rows of the signals from the s-th on: in a sweep those of the records that a
\* run owns, else those of all records
RECURSIVE ExpectedSummary(_)
ExpectedSummary(s) ==
    IF s > Len(fourier) THEN <<>>
    ELSE LET L == IF step_count > 0 THEN RecordsByRun(fourier[s].v, 0) ELSE fourier[s].v
         IN  [i \in 1..Len(L) |-> RowOf(fourier[s].k, L[i])] \o ExpectedSummary(s + 1)

\* a record that gets a row, but has no harmonic to take the fundamental from
RowWithoutHarmonics ==
    \E s \in 1..Len(fourier) : \E i \in 1..Len(fourier[s].v) :
        /\ fourier[s].v[i].harmonics = <<>>
        /\ step_count > 0 => fourier[s].v[i].step >= 0

\* a Step Set sequence with fewer values than there are runs
ShortStepSequence == \E i \in 1..Len(stepset) : Len(stepset[i].v) < step_count

\* the export has ended, the pass before it having ended without an exception
ExportEnded == pc = "exported" \/ (pc = "error" /\ out # <<>>)

\* C12 as stated: export_data writes exactly one summary row for every record of the
\* Fourier map; in a sweep the rows of a signal come in ascending owning-run order,
\* each with the step values of its record's owning run.
C12_RowForEveryRecord ==
    pc = "exported" =>
       /\ Len(SummaryRows) = RecordCount(1)
       /\ [i \in 1..Len(SummaryRows) |-> SummaryRows[i].f] = ExpectedSummary(1)

\* C12 amended: when export_data completes it has written exactly one summary row for
\* every record when there is no sweep, and in a sweep for every record whose owning
\* run is at least 0 (a record read before the first ".step" line, owning run -1, gets
\* no row); the rows of a signal come in ascending owning-run order, each with the value
\* at the position of the owning run in every Step Set sequence. It raises IndexError
\* instead exactly when the Fourier map is not empty and a record that gets a row has
\* no harmonic, or a sweep is present and a Step Set sequence has fewer values than
\* there are runs.
C12_RowForEveryOwnedRecord ==
    /\ pc = "exported" =>
          [i \in 1..Len(SummaryRows) |-> SummaryRows[i].f] = ExpectedSummary(1)
    /\ ExportEnded =>
          ((pc = "error") = (fourier # <<>> /\ (RowWithoutHarmonics \/ ShortStepSequence)))
    /\ (pc = "error" /\ out # <<>>) => exc = "IndexError"

\* a sweep of one run exported: the record read before the ".step" line has no row,
\* the record of run 0 has one, with the value of a
C12_Witness ==
    /\ pc = "exported"
    /\ step_count = 1
    /\ Has(fourier, "V(x)")
    /\ Len(Get(fourier, "V(x)")) = 2
    /\ Get(fourier, "V(x)")[1].step = -1
    /\ Get(fourier, "V(x)")[2].step = 0
    /\ Len(SummaryRows) = 1
    /\ SummaryRows[1].f[1] = "1"
    /\ SummaryRows[1].f[2] = "V(x)"

----------------------------------------------------------------------------
(* C13 *)

\* C13: the pass only moves forward, from the preamble scan to the measurement pass
\* to the end: the Fourier block state is entered from the preamble scan only and is
\* left for it (or by an exception); once the scan has met a "Measurement:" line the
\* pass is never again in the preamble scan or in a Fourier block, and no line read
\* from then on changes the Run Counter, the Step Set or the Fourier map.
C13_PassMovesForward ==
    [][ /\ pc = "preamble" => pc' \in {"preamble", "fourier", "measure", "done", "error"}
        /\ pc = "fourier" => pc' \in {"fourier", "preamble", "error"}
        /\ pc = "measure" => pc' \in {"measure", "done", "error"}
        /\ pc \in {"done", "error"} => pc' = pc
        /\ (pc = "preamble" /\ pos <= Len(file) /\ StartsWith(Cur, "Measurement:"))
              => pc' \in {"measure", "done"}
        /\ pc \in {"measure", "done", "error"}
              => UNCHANGED <<step_count, stepset, fourier>>
      ]_vars

\* a pass that ended after its measurement pass read a ".step" line and an "N-Period"
\* line: no run is counted, no record is stored
C13_Witness ==
    /\ pc = "done"
    /\ read_measures
    /\ measure_count > 0
    /\ \E i \in 1..Len(file) : StartsWith(file[i], ".step")
    /\ \E i \in 1..Len(file) : StartsWith(file[i], "N-Period")
    /\ step_count = 0
    /\ stepset = <<>>
    /\ fourier = <<>>

----------------------------------------------------------------------------
(* C14 *)

\* Fourier blocks that the end of the file cuts off: in the table, and in the head
CutOffSegments ==
    { <<LnNPeriod("all"), LnSignal("V(x)"), LnDC("0.5"), LnBlank,
        LnText("Harmonic Frequency Fourier Normalized Phase Normalized"),
        LnText("Number [Hz] Component Component [degree] Phase [deg]"),
        HarmRow("1")>>,
      <<LnNPeriod("all"), LnSignal("V(x)"), LnDC("0.5"), LnBlank>> }

\* log files that end in a block that is cut off
CutOffLogs == {f \o s : f \in FilesOf(MaxSegs - 2), s \in CutOffSegments}

\* the files of the passes followed to their end
LiveLogs == FilesOf(MaxSegs - 1) \cup CutOffLogs

InitLive ==
    /\ file \in LiveLogs
    /\ read_measures \in BOOLEAN
    /\ pos = 1
    /\ pc = "preamble"
    /\ exc = ""
    /\ handles = {"fin"}
    /\ step_count = 0
    /\ measure_count = 0
    /\ stepset = <<>>
    /\ dataset = <<>>
    /\ fourier = <<>>
    /\ blk = NoBlk
    /\ dataname = PyNone
    /\ headers = <<>>
    /\ measurements = <<>>
    /\ go_header = FALSE
    /\ curr = <<>>
    /\ out = <<>>

\* the pass is sequential code: as long as a step is possible, one is taken
SpecLive == InitLive /\ [][NextLog]_vars /\ WF_vars(NextLog)

\* C14: the pass over any finite log file ends, in the terminal state or in an error;
\* the position in the file never moves back, so that every line is read at most once
\* and in file order, and a Fourier block that the end of the file cuts off does not
\* keep the harmonics loop running.
C14_PassEnds ==
    /\ [][pos' >= pos]_vars
    /\ <>(pc \in {"done", "error"})

\* a pass that ended without error on a file whose last line is a harmonic line: the
\* end of the file closed the table and the record is stored
C14_Witness ==
    /\ pc = "done"
    /\ file # <<>>
    /\ file[Len(file)].kind = "harm"
    /\ Has(fourier, "V(x)")
    /\ LET L == Get(fourier, "V(x)") IN Len(L[Len(L)].harmonics) = 1

----------------------------------------------------------------------------
(* C15 *)

\* a Fourier block whose three skipped head lines look like a step line, a
\* measurement block start and a stepless measurement
OddBlock ==
    <<LnNPeriod("all"), LnSignal("V(z)"), LnDC("0.5"),
      LnStep(<< <<"a", "1">> >>), LnMeas(TRUE, "gain"),
      LnStepless("gain", "1.99", "", "", ""), HarmRow("1"), LnBlank>>

DispatchLogs ==
    FilesOf(MaxSegs - 1)
    \cup {f \o OddBlock \o g : f \in FilesOf(MaxSegs - 2), g \in FilesOf(1)}

InitDispatch ==
    /\ file \in DispatchLogs
    /\ read_measures \in BOOLEAN
    /\ pos = 1
    /\ pc = "preamble"
    /\ exc = ""
    /\ handles = {"fin"}
    /\ step_count = 0
    /\ measure_count = 0
    /\ stepset = <<>>
    /\ dataset = <<>>
    /\ fourier = <<>>
    /\ blk = NoBlk
    /\ dataname = PyNone
    /\ headers = <<>>
    /\ measurements = <<>>
    /\ go_header = FALSE
    /\ curr = <<>>
    /\ out = <<>>

SpecDispatch == InitDispatch /\ [][NextLog]_vars

\* C15: a line of the preamble scan is handled by at most one recognizer, the first
\* that fits in the order Fourier block start, step line, measurement block start,
\* stepless measurement; a line read inside a Fourier block is handled by none of the
\* last three and is not handed to the scan again.
C15_OneRecognizerPerLine ==
    [][ /\ (pc = "preamble" /\ pos <= Len(file)) =>
             LET fb == StartsWith(Cur, "N-Period")
                 st == StartsWith(Cur, ".step")
                 ms == StartsWith(Cur, "Measurement:")
                 asFourier == pc' = "fourier" \/ blk' # blk
                 asStep == step_count' # step_count \/ stepset' # stepset
                 asMeas == pc' \in {"measure", "done"}
                 asStepless == dataset' # dataset \/ measure_count' # measure_count
             IN  /\ asFourier => fb /\ ~asStep /\ ~asMeas /\ ~asStepless
                 /\ asStep => ~fb /\ st /\ ~asMeas /\ ~asStepless
                 /\ asMeas => ~fb /\ ~st /\ ms /\ ~asStepless
                 /\ asStepless => ~fb /\ ~st /\ ~ms /\ regx_match(Cur).ty # "None"
                 /\ fb => ~asStep /\ ~asMeas /\ ~asStepless
                 /\ st => asStep
                 /\ (~fb /\ ~st /\ ms) => asMeas
        /\ pc = "fourier" =>
             /\ UNCHANGED <<step_count, stepset, dataset, measure_count>>
             /\ pc' \notin {"measure", "done"}
             /\ pc' # "error" => pos' > pos
      ]_vars

\* a pass that ended after a Fourier block took a step line, a measurement block start
\* and a stepless measurement as its head lines: a record, no run, no column
C15_Witness ==
    /\ pc = "done"
    /\ Len(file) = Len(OddBlock)
    /\ Has(fourier, "V(z)")
    /\ step_count = 0
    /\ dataset = <<>>
    /\ measure_count = 0

----------------------------------------------------------------------------
(* C16 *)

\* the number of records of a Fourier map
RECURSIVE RecordsIn(_)
RecordsIn(f) == IF f = <<>> THEN 0 ELSE Len(Head(f).v) + RecordsIn(Tail(f))

\* the step that closes a block adds its record at the end of its signal's sequence,
\* tagged with run r, and leaves the other records alone
AppendsRecordOfRun(r) ==
    /\ Has(fourier', blk.signal)
    /\ AddedRecord.step = r
    /\ AddedRecord.signal = blk.signal
    /\ RecordsIn(fourier') = RecordsIn(fourier) + 1
    /\ \A s \in 1..Len(fourier) :
          /\ Has(fourier', fourier[s].k)
          /\ LET L == Get(fourier', fourier[s].k)
             IN  fourier[s].v = IF fourier[s].k = blk.signal
                                THEN SubSeq(L, 1, Len(L) - 1) ELSE L

\* C16 as stated: the record of a completed Fourier block has as owning run the number
\* of ".step" lines of the file before the block's "N-Period" line, minus 1; it is
\* added at the end of its signal's sequence, and records are added by completed
\* blocks only.
C16_OwnerCountsStepLinesBefore ==
    [][ IF ClosesBlock
        THEN AppendsRecordOfRun(Cardinality({i \in StepLineIdx : i < blk.start}) - 1)
        ELSE fourier' = fourier
      ]_vars

\* C16 amended: the record of a completed Fourier block has as owning run the number
\* of ".step" lines that the preamble scan has read as lines of their own before the
\* block's "N-Period" line (a ".step" line consumed inside an earlier Fourier block is
\* not among them), minus 1; it is added at the end of its signal's sequence, and
\* records are added by completed blocks only, one each.
C16_OwnerCountsScannedStepLines ==
    [][ IF ClosesBlock
        THEN AppendsRecordOfRun(Cardinality({i \in ScannedStepIdx : i < blk.start}) - 1)
        ELSE fourier' = fourier
      ]_vars

\* two blocks read after one counted ".step" line, the first of them having taken
\* another ".step" line as a head line: both records belong to run 0
C16_Witness ==
    /\ pc = "done"
    /\ step_count = 1
    /\ Cardinality(StepLineIdx) = 2
    /\ Has(fourier, "V(z)") /\ Get(fourier, "V(z)")[1].step = 0
    /\ Has(fourier, "V(x)") /\ Get(fourier, "V(x)")[1].step = 0

----------------------------------------------------------------------------
(* C17 *)

\* the "Measurement: <name>" line of the block that is pending when the measurement
\* pass is at line p (0 when no block has started)
BlockStart(p) ==
    LET S == {i \in MeasBegin..(p - 1) : StartsWith(file[i], "Measurement: ")}
    IN  IF S = {} THEN 0 ELSE Max(S)

\* the data rows of that block: its lines whose first tab separated token is an integer
BlockRows(p) ==
    LET I == Sorted({j \in (BlockStart(p) + 1)..(p - 1) : IsIntText(TabSplit(file[j])[1])})
    IN  [n \in 1..Len(I) |-> try_convert_list(Tail(TabSplit(file[I[n]])))]

\* the column names of that block, from its header row (none without a header row)
BlockColumns(p) ==
    LET H == {j \in (BlockStart(p) + 1)..(p - 1) : IsHeaderRow(file[j])}
    IN  IF H = {} THEN <<>>
        ELSE HeaderRow(TabSplit(file[Max(H)]), PyStr(file[BlockStart(p)].nm)).headers

\* the measurement pass is at a line that ends a block with data rows
BlockEnds ==
    /\ pc = "measure"
    /\ pos > Len(file) \/ StartsWith(Cur, "Measurement: ")
    /\ BlockStart(pos) # 0
    /\ BlockRows(pos) # <<>>

\* C17: a measurement block is flushed by the next "Measurement: <name>" line or by
\* the end of the file, and after the flush every column of the block holds the
\* block's data rows, one value per row, in file order: no data row is lost.
C17_BlockFlushedWithAllRows ==
    [][ BlockEnds =>
          /\ pc' # "error"
          /\ \A k \in 1..Len(BlockColumns(pos)) :
                /\ Has(dataset', BlockColumns(pos)[k])
                /\ \A i \in 1..Len(BlockRows(pos)) : Len(BlockRows(pos)[i]) >= k
                /\ Get(dataset', BlockColumns(pos)[k])
                      = [i \in 1..Len(BlockRows(pos)) |-> BlockRows(pos)[i][k]]
      ]_vars

----------------------------------------------------------------------------
(* C18 *)

\* the stepless measurement lines the parse discovers: lines the preamble scan takes
\* as none of the three markers, before any ".step" line of the scan, that have the
\* stepless measurement shape
SteplessLinesFound ==
    {i \in ScanFrom(1) :
        /\ ~StartsWith(file[i], "N-Period")
        /\ ~StartsWith(file[i], ".step")
        /\ ~StartsWith(file[i], "Measurement:")
        /\ \A j \in ScannedStepIdx : j > i
        /\ regx_match(file[i]).ty # "None"}

\* the measurement data rows the parse discovers: the data rows of the measurement pass
DataRowsFound ==
    IF read_measures /\ \E i \in ScanFrom(1) : StartsWith(file[i], "Measurement:")
    THEN {i \in MeasBegin..Len(file) :
             ~StartsWith(file[i], "Measurement: ") /\ IsDataRow(file[i])}
    ELSE {}

\* C18: after a parse, the Measurement Counter equals the number of measurement values
\* discovered, every stepless measurement line and every measurement data row being
\* counted exactly once.
C18_CounterCountsOnce ==
    pc = "done" => measure_count = Cardinality(SteplessLinesFound) + Cardinality(DataRowsFound)

----------------------------------------------------------------------------
(* C19 *)

\* column key of the dataset has, at position n, the value v
HoldsAt(key, n, v) ==
    /\ Has(dataset, key)
    /\ Len(Get(dataset, key)) >= n
    /\ Get(dataset, key)[n] = v

\* the n-th data line has its values in the dataset: runno and the parameters of the
\* last "Step Information:" line before it, and its own fields by header position
RowLoaded(n) ==
    LET i == RowIdx[n]
        j == LastBefore(MarkerIdx, i)
    IN  /\ j # 0 =>
              /\ HoldsAt("runno", n, PyStr(file[j].run))
              /\ \A p \in 1..Len(file[j].params) :
                    /\ Len(file[j].params[p]) = 2
                    /\ HoldsAt(file[j].params[p][1], n, try_convert_value(file[j].params[p][2]))
        /\ \A k \in 1..Len(file[i].toks) :
              /\ k <= Len(headers)
              /\ HoldsAt(headers[k], n, try_convert_value(file[i].toks[k]))

\* C19: when an export file with "Step Information:" lines has been loaded, every data
\* line i has at position i of the runno column and of every parameter column the
\* values of the last "Step Information:" line before it, and at position i of the
\* header columns its own coerced fields, in header order.
C19_RowsCarryLastMarkerValues ==
    (MarkerIdx # {} /\ pc \in {"done", "error"})
    => \A n \in 1..Len(RowIdx) : RowLoaded(n)

----------------------------------------------------------------------------
(* C20: header rows of named measurement blocks *)

HeaderNames == {"vrms", "vmax"}

HeaderShapes ==
    { <<"step", "MAX(v)">>,
      <<"step", "MAX(v)", "FROM", "TO">>,
      <<"step", "MAX(v)", "at">>,
      <<"step", "MAX(v)", "FROM">>,
      <<"step", "MAX(v)", "x", "TO">>,
      <<"step", "MAX(v)", "TO", "FROM">> }

\* a named block with one header row and one data row that has a field for every title
HeaderBlocks ==
    {SegBlock(n, h, <<LnRow(<<"1", "1.5", "0", "0.001">>)>>) : n \in HeaderNames, h \in HeaderShapes}

\* a header row and a data row with no "Measurement: " line of their own
BareRows == <<LnRow(<<"step", "MAX(v)", "FROM", "TO">>), LnRow(<<"1", "1.5", "0", "0.001">>)>>

\* log files that end in two measurement blocks
HeaderLogs ==
    FilesOf(MaxSegs - 1)
    \cup {f \o b \o c : f \in FilesOf(MaxSegs - 3) \cup {<<LnMeas(FALSE, "gain")>>},
                        b \in HeaderBlocks \cup {BareRows}, c \in HeaderBlocks}

InitHeaders ==
    /\ file \in HeaderLogs
    /\ read_measures \in BOOLEAN
    /\ pos = 1
    /\ pc = "preamble"
    /\ exc = ""
    /\ handles = {"fin"}
    /\ step_count = 0
    /\ measure_count = 0
    /\ stepset = <<>>
    /\ dataset = <<>>
    /\ fourier = <<>>
    /\ blk = NoBlk
    /\ dataname = PyNone
    /\ headers = <<>>
    /\ measurements = <<>>
    /\ go_header = FALSE
    /\ curr = <<>>
    /\ out = <<>>

SpecHeaders == InitHeaders /\ [][NextLog]_vars

\* the positions, counted from 0, of the tokens of a header row that are renamed
RenamedAt(tokens) ==
    {q \in 2..(Len(tokens) - 1) :
        \/ q = 2 /\ tokens[q + 1] \in {"FROM", "at"}
        \/ q = 3 /\ tokens[q + 1] = "TO"}

\* the column names of a header row in a block named nm
TitlesOf(tokens, nm) ==
    [n \in 1..(Len(tokens) - 1) |->
        IF n = 1 THEN nm
        ELSE IF n \in RenamedAt(tokens) THEN nm \o "_" \o tokens[n + 1]
        ELSE tokens[n + 1]]

\* the interval and point columns among them
IntervalTitles(tokens, nm) == {TitlesOf(tokens, nm)[q] : q \in RenamedAt(tokens)}

\* the measurement pass is at a header row of a named block
AtHeaderRow ==
    /\ pc = "measure"
    /\ pos <= Len(file)
    /\ IsHeaderRow(Cur)
    /\ BlockStart(pos) # 0

\* C20: a header row of a block named <name> makes the block's column names <name>
\* followed by the tokens from position 2 on, "FROM" or "at" at position 2 becoming
\* <name>_FROM or <name>_at and "TO" at position 3 becoming <name>_TO; the interval and
\* point columns so named share no name with those of an earlier block of another name.
C20_HeaderRowTitles ==
    [][ AtHeaderRow =>
          LET nm == file[BlockStart(pos)].nm IN
          /\ pc' = "measure"
          /\ headers' = TitlesOf(TabSplit(Cur), nm)
          /\ \A j \in MeasBegin..(pos - 1) :
                (IsHeaderRow(file[j]) /\ BlockStart(j) # 0 /\ file[BlockStart(j)].nm # nm)
                => {headers'[q] : q \in RenamedAt(TabSplit(Cur))}
                      \cap IntervalTitles(TabSplit(file[j]), file[BlockStart(j)].nm) = {}
      ]_vars

\* two blocks of different names, both with an interval, have been stored
C20_Witness ==
    /\ pc = "done"
    /\ Has(dataset, "vrms_FROM") /\ Has(dataset, "vrms_TO")
    /\ Has(dataset, "vmax_FROM") /\ Has(dataset, "vmax_TO")
    /\ headers[2] \in {"vrms_FROM", "vmax_FROM"}

----------------------------------------------------------------------------
(* C21 *)

\* the header line written for table tbl of the "_fourier" file
HeaderOf(tbl) == CHOOSE n \in 1..Len(out) : out[n].tbl = tbl /\ out[n].h

\* C21: in each of the two tables of the "_fourier" file, every data row has as many
\* tab separated fields as the header row of its table, with a sweep and without one.
C21_RowsAsWideAsHeader ==
    (pc = "exported" /\ out # <<>>)
    => \A n \in 1..Len(out) :
          (out[n].tbl \in {"summary", "detail"} /\ ~out[n].h)
          => Len(out[n].f) = Len(out[HeaderOf(out[n].tbl)].f)

----------------------------------------------------------------------------
(* C22 *)

\* C22: whatever the input file, with "Step Information:" lines or without, the
\* output of reformat_LTSpice_export starts with one header line, the only one, written
\* before any data row, and a data row whose input line has as many fields as the
\* input header has as many fields as the written header.
C22_OneHeaderThenRowsAsWide ==
    (pc = "done" /\ RowIdx # <<>>)
    => /\ out # <<>>
       /\ out[1].h
       /\ \A n \in 2..Len(out) : ~out[n].h
       /\ \A n \in 1..Len(RowIdx) :
             Len(file[RowIdx[n]].toks) = Len(headers)
             => /\ n + 1 <= Len(out)
                /\ Len(out[n + 1].f) = Len(out[1].f)

----------------------------------------------------------------------------
(* C23 *)

\* C23: after a load by LTSpiceExport that ended without an exception, every column
\* of the dataset has one value per data line of the file, also when a data line has
\* fewer fields than the header or a later "Step Information:" line names the
\* parameters of the first again.
C23_ColumnsAsLongAsRows ==
    pc = "done" => \A n \in 1..Len(dataset) : Len(dataset[n].v) = Len(RowIdx)

====
